---------------------------- MODULE Spec2Model ----------------------------
(***************************************************************************)
(* CrisisVault: the vault unlock and session-lifecycle engine.             *)
(*                                                                         *)
(* Strings are sequences of UTF-16 code units and buffers are sequences of *)
(* bytes, both with their real numeric values, so that the hex, base64,    *)
(* UTF-8 and JSON conversions of the code are computed, not assumed.  The  *)
(* three Web Crypto primitives (PBKDF2, HMAC-SHA256, AES-256-GCM) are the  *)
(* platform's, not the repository's: they are modelled as ideal (PBKDF2 is *)
(* injective, a MAC or a ciphertext is an unforgeable handle on what it    *)
(* was computed from).                                                     *)
(***************************************************************************)
EXTENDS Integers, Sequences, FiniteSets, TLC

(***************************************************************************)
(* Bounds of the model.                                                    *)
(***************************************************************************)
\* The clock advances in quanta; MaxTicks quanta are observed.
MaxTicks == 3
\* Unlock calls that may be in flight at once.
MaxInFlight == 2
\* recordAttempt() calls observed when the limiter is driven on its own.
MaxAttempts == 12

(***************************************************************************)
(* Program constants.                                                      *)
(***************************************************************************)
MAX_UNLOCK_ATTEMPTS == 5
LOCKOUT_BASE_MS == 15000
LOCKOUT_MULTIPLIER == 2
MAX_LOCKOUT_MS == 300000
SALT_LENGTH == 16
IV_LENGTH == 12
\* Bytes of an HMAC-SHA256 digest, and of an AES-GCM tag (TAG_LENGTH 128 bits).
SIG_LENGTH == 32
TAG_BYTES == 16

\* The clock's quantum: a third of the base lockout, so that instants
\* strictly inside, at the end of and after every lockout window are seen.
Quantum == LOCKOUT_BASE_MS \div 3

(***************************************************************************)
(* Sequences, bits.                                                        *)
(***************************************************************************)
Min(a, b) == IF a < b THEN a ELSE b

Range(s) == {s[i] : i \in 1..Len(s)}

\* A sequence given as a function, as a tuple.
Tuple(f) == f \o <<>>

Rep(x, n) == Tuple([i \in 1..n |-> x])

\* The sequences of ss end to end (by halves: the depth stays small).
RECURSIVE Concat(_)
Concat(ss) ==
    IF Len(ss) = 0 THEN <<>>
    ELSE IF Len(ss) = 1 THEN ss[1]
    ELSE Concat(SubSeq(ss, 1, Len(ss) \div 2))
         \o Concat(SubSeq(ss, (Len(ss) \div 2) + 1, Len(ss)))

RECURSIVE Pow(_, _)
Pow(b, e) == IF e = 0 THEN 1 ELSE b * Pow(b, e - 1)

\* a ^ b and a | b of the code, on non-negative integers.
RECURSIVE BitXor(_, _)
BitXor(a, b) ==
    IF a = 0 THEN b
    ELSE IF b = 0 THEN a
    ELSE ((((a % 2) + (b % 2)) % 2) + 2 * BitXor(a \div 2, b \div 2))

RECURSIVE BitOr(_, _)
BitOr(a, b) ==
    IF a = 0 THEN b
    ELSE IF b = 0 THEN a
    ELSE (IF (a % 2) + (b % 2) > 0 THEN 1 ELSE 0) + 2 * BitOr(a \div 2, b \div 2)

\* The outcome of a call that may throw.
Return(v) == [threw |-> FALSE, val |-> v]
Throw == [threw |-> TRUE, val |-> <<>>]

(***************************************************************************)
(* Hex (crypto.ts hexToBuffer, README bufferToHex).                        *)
(***************************************************************************)
IsHexDigit(c) == (c \in 48..57) \/ (c \in 97..102) \/ (c \in 65..70)

\* parseInt(d, 16) of one digit.
HexVal(c) == IF c \in 48..57 THEN c - 48
             ELSE IF c \in 97..102 THEN c - 87
             ELSE c - 55

hexToBuffer(hex) ==
    IF (\E i \in 1..Len(hex) : ~IsHexDigit(hex[i])) \/ (Len(hex) % 2) # 0
    THEN Throw
    ELSE Return(Tuple([i \in 1..(Len(hex) \div 2) |->
                    16 * HexVal(hex[2 * i - 1]) + HexVal(hex[2 * i])]))

\* Buffer.toString('hex'): two lower-case digits a byte.
HexDigit(n) == IF n < 10 THEN 48 + n ELSE 87 + n

bufferToHex(buffer) ==
    Tuple([i \in 1..(2 * Len(buffer)) |->
        IF (i % 2) = 1 THEN HexDigit(buffer[(i + 1) \div 2] \div 16)
        ELSE HexDigit(buffer[i \div 2] % 16)])

(***************************************************************************)
(* Base64 (crypto.ts base64ToBuffer over atob, README bufferToBase64).     *)
(***************************************************************************)
B64Char(n) == IF n < 26 THEN 65 + n
              ELSE IF n < 52 THEN 97 + (n - 26)
              ELSE IF n < 62 THEN 48 + (n - 52)
              ELSE IF n = 62 THEN 43 ELSE 47

IsB64Char(c) == (c \in 65..90) \/ (c \in 97..122) \/ (c \in 48..57) \/ c = 43 \/ c = 47

B64Val(c) == IF c \in 65..90 THEN c - 65
             ELSE IF c \in 97..122 THEN c - 97 + 26
             ELSE IF c \in 48..57 THEN c - 48 + 52
             ELSE IF c = 43 THEN 62 ELSE 63

\* Buffer.toString('base64'): 3 bytes to 4 characters, '=' padding.
RECURSIVE bufferToBase64(_)
bufferToBase64(b) ==
    IF Len(b) = 0 THEN <<>>
    ELSE IF Len(b) = 1 THEN
        <<B64Char(b[1] \div 4), B64Char((b[1] % 4) * 16), 61, 61>>
    ELSE IF Len(b) = 2 THEN
        <<B64Char(b[1] \div 4), B64Char((b[1] % 4) * 16 + (b[2] \div 16)),
          B64Char((b[2] % 16) * 4), 61>>
    ELSE
        <<B64Char(b[1] \div 4), B64Char((b[1] % 4) * 16 + (b[2] \div 16)),
          B64Char((b[2] % 16) * 4 + (b[3] \div 64)), B64Char(b[3] % 64)>>
        \o bufferToBase64(SubSeq(b, 4, Len(b)))

IsAsciiWhitespace(c) == c \in {9, 10, 12, 13, 32}

RECURSIVE B64Decode(_)
B64Decode(s) ==
    IF Len(s) = 0 THEN <<>>
    ELSE IF Len(s) = 2 THEN
        <<B64Val(s[1]) * 4 + (B64Val(s[2]) \div 16)>>
    ELSE IF Len(s) = 3 THEN
        <<B64Val(s[1]) * 4 + (B64Val(s[2]) \div 16),
          (B64Val(s[2]) % 16) * 16 + (B64Val(s[3]) \div 4)>>
    ELSE
        <<B64Val(s[1]) * 4 + (B64Val(s[2]) \div 16),
          (B64Val(s[2]) % 16) * 16 + (B64Val(s[3]) \div 4),
          (B64Val(s[3]) % 4) * 64 + B64Val(s[4])>>
        \o B64Decode(SubSeq(s, 5, Len(s)))

\* atob: the forgiving-base64 decode of the HTML standard; it throws on a
\* character outside the alphabet and on a length of 1 modulo 4.
atob(base64) ==
    LET data == SelectSeq(base64, LAMBDA c : ~IsAsciiWhitespace(c))
        n == Len(data)
        unpadded ==
            IF (n % 4) = 0 /\ n >= 2 /\ data[n] = 61 /\ data[n - 1] = 61
                THEN SubSeq(data, 1, n - 2)
            ELSE IF (n % 4) = 0 /\ n >= 1 /\ data[n] = 61
                THEN SubSeq(data, 1, n - 1)
            ELSE data
    IN  IF (Len(unpadded) % 4) = 1 \/ (\E i \in 1..Len(unpadded) : ~IsB64Char(unpadded[i]))
        THEN Throw
        ELSE Return(B64Decode(unpadded))

base64ToBuffer(base64) == atob(base64)

(***************************************************************************)
(* UTF-8 (TextEncoder.encode, TextDecoder.decode) on the Basic             *)
(* Multilingual Plane.  A lone surrogate encodes as U+FFFD; the decoder,   *)
(* built with its defaults (ignoreBOM false), drops one leading U+FEFF.    *)
(***************************************************************************)
BOM == 65279
REPLACEMENT == 65533

IsSurrogate(c) == c \in 55296..57343

Utf8Char(c) ==
    LET u == IF IsSurrogate(c) THEN REPLACEMENT ELSE c
    IN  IF u < 128 THEN <<u>>
        ELSE IF u < 2048 THEN <<192 + (u \div 64), 128 + (u % 64)>>
        ELSE <<224 + (u \div 4096), 128 + ((u \div 64) % 64), 128 + (u % 64)>>

TextEncode(str) == Concat([i \in 1..Len(str) |-> Utf8Char(str[i])])

IsCont(b) == b \in 128..191

RECURSIVE Utf8Decode(_)
Utf8Decode(b) ==
    IF Len(b) = 0 THEN <<>>
    ELSE IF b[1] < 128 THEN <<b[1]>> \o Utf8Decode(Tail(b))
    ELSE IF b[1] \in 194..223 /\ Len(b) >= 2 /\ IsCont(b[2]) THEN
        <<(b[1] - 192) * 64 + (b[2] - 128)>> \o Utf8Decode(SubSeq(b, 3, Len(b)))
    ELSE IF /\ b[1] \in 224..239 /\ Len(b) >= 3 /\ IsCont(b[2]) /\ IsCont(b[3])
            /\ (b[1] - 224) * 4096 + (b[2] - 128) * 64 + (b[3] - 128) >= 2048
            /\ ~IsSurrogate((b[1] - 224) * 4096 + (b[2] - 128) * 64 + (b[3] - 128)) THEN
        <<(b[1] - 224) * 4096 + (b[2] - 128) * 64 + (b[3] - 128)>>
        \o Utf8Decode(SubSeq(b, 4, Len(b)))
    ELSE <<REPLACEMENT>> \o Utf8Decode(Tail(b))

TextDecode(bytes) ==
    LET s == Utf8Decode(bytes)
    IN  IF Len(s) > 0 /\ s[1] = BOM THEN Tail(s) ELSE s

(***************************************************************************)
(* JSON.stringify of the manifest's files array: the keys in the order the *)
(* authoring script writes them, strings quoted and escaped.               *)
(***************************************************************************)
JsonQuoteChar(c) ==
    IF c = 34 THEN <<92, 34>>
    ELSE IF c = 92 THEN <<92, 92>>
    ELSE IF c = 8 THEN <<92, 98>>
    ELSE IF c = 9 THEN <<92, 116>>
    ELSE IF c = 10 THEN <<92, 110>>
    ELSE IF c = 12 THEN <<92, 102>>
    ELSE IF c = 13 THEN <<92, 114>>
    ELSE IF c < 32 THEN <<92, 117, 48, 48, HexDigit(c \div 16), HexDigit(c % 16)>>
    ELSE IF IsSurrogate(c) THEN
        <<92, 117, HexDigit(c \div 4096), HexDigit((c \div 256) % 16),
          HexDigit((c \div 16) % 16), HexDigit(c % 16)>>
    ELSE <<c>>

JsonString(str) ==
    <<34>> \o Concat([i \in 1..Len(str) |-> JsonQuoteChar(str[i])]) \o <<34>>

\* Items joined by commas.
JsonJoin(items) ==
    Concat([i \in 1..Len(items) |-> IF i = 1 THEN items[i] ELSE <<44>> \o items[i]])

JsonArray(items) == <<91>> \o JsonJoin(items) \o <<93>>

JsonFile(file) ==
    <<123>>
    \o <<34, 105, 100, 34, 58>> \o JsonString(file.id) \o <<44>>
    \o <<34, 116, 105, 116, 108, 101, 34, 58>> \o JsonString(file.title) \o <<44>>
    \o <<34, 112, 114, 105, 111, 114, 105, 116, 121, 34, 58>>
    \o JsonString(file.priority) \o <<44>>
    \o <<34, 116, 97, 103, 115, 34, 58>>
    \o JsonArray([i \in 1..Len(file.tags) |-> JsonString(file.tags[i])]) \o <<44>>
    \o <<34, 105, 118, 34, 58>> \o JsonString(file.iv) \o <<44>>
    \o <<34, 100, 97, 116, 97, 34, 58>> \o JsonString(file.data)
    \o <<125>>

JSONstringify(files) == JsonArray([i \in 1..Len(files) |-> JsonFile(files[i])])

(***************************************************************************)
(* The inputs of the model: passphrases, the salt and the nonces the       *)
(* authoring run drew, and the documents it read.                          *)
(***************************************************************************)
\* "Tr0ub4dor&3Long!", the passphrase the vault is authored with.
Passphrase == <<84, 114, 48, 117, 98, 52, 100, 111, 114, 38, 51, 76, 111, 110, 103, 33>>
\* "Wr0ng-Passphrase"
WrongPassphrase ==
    <<87, 114, 48, 110, 103, 45, 80, 97, 115, 115, 112, 104, 114, 97, 115, 101>>

PassphraseSeq == <<Passphrase, WrongPassphrase>>
Passphrases == Range(PassphraseSeq)

\* aa x 16
AuthorSalt == Rep(170, SALT_LENGTH)

\* The nonce drawn for the i-th document.
AuthorIv(i) == Rep(i, IV_LENGTH)

\* The id drawn for the i-th document: "doc-1", "doc-2", ...
AuthorId(i) == <<100, 111, 99, 45, 48 + i>>

\* Documents as parseMarkdownFrontmatter returns them.  A file that starts
\* with U+FEFF matches no front matter (the pattern is anchored at the start
\* of the file), so its content is the file as read, U+FEFF included.
DocPlain ==
    [title |-> <<73, 110, 99, 105, 100, 101, 110, 116, 32, 82, 101, 115, 112, 111, 110, 115, 101>>,
     priority |-> <<99, 114, 105, 116, 105, 99, 97, 108>>,
     tags |-> << <<111, 112, 115>> >>,
     content |-> <<35, 32, 72, 105>>]

DocNul ==
    [title |-> <<80, 108, 97, 110>>,
     priority |-> <<110, 111, 114, 109, 97, 108>>,
     tags |-> <<>>,
     content |-> <<97, 0, 98>>]

DocEmpty ==
    [title |-> <<110, 111, 116, 101, 115>>,
     priority |-> <<110, 111, 114, 109, 97, 108>>,
     tags |-> <<>>,
     content |-> <<>>]

DocBom ==
    [title |-> <<110, 111, 116, 101, 115>>,
     priority |-> <<110, 111, 114, 109, 97, 108>>,
     tags |-> <<>>,
     content |-> <<BOM, 35, 32, 72, 105>>]

DocLists == {<<DocPlain>>, <<DocNul, DocEmpty>>, <<DocPlain, DocBom>>}

ContentSeq == <<DocPlain.content, DocNul.content, DocEmpty.content, DocBom.content>>

(***************************************************************************)
(* The platform's primitives, ideal.                                       *)
(***************************************************************************)
ITERATIONS == 600000
AUTHOR_ITERATIONS == 600000

\* crypto.subtle.deriveKey with PBKDF2: a key is determined by, and
\* determines, the algorithm it is for, the password, the salt and the count.
SubtleDeriveKey(algorithm, keyMaterial, salt, iterations) ==
    <<algorithm, keyMaterial, salt, iterations>>

NULL == <<>>

\* The position of x in seq, 0 when it is not there.
IndexOf(seq, x) ==
    IF \E i \in 1..Len(seq) : seq[i] = x
    THEN CHOOSE i \in 1..Len(seq) : seq[i] = x
    ELSE 0

\* v < 65536 on n bytes, big-endian.
ToBytes(v, n) ==
    Tuple([i \in 1..n |-> IF i = n THEN v % 256
                          ELSE IF i = n - 1 THEN (v \div 256) % 256
                          ELSE 0])

\* The number a buffer spells, big-endian; 0 when it is beyond 65535 (no
\* handle of the model is).
FromBytes(b) ==
    LET n == Len(b)
    IN  IF n = 0 \/ (\E i \in 1..(n - 2) : b[i] # 0) THEN 0
        ELSE IF n = 1 THEN b[1]
        ELSE 256 * b[n - 1] + b[n]

XorBytes(buf, c) == Tuple([i \in 1..Len(buf) |-> BitXor(buf[i], c)])

\* The authoring script's two derivations (README).
deriveEncryptionKey(passphrase, salt) ==
    SubtleDeriveKey("AES-GCM", TextEncode(passphrase), salt, AUTHOR_ITERATIONS)

authorDeriveHmacKey(passphrase, salt) ==
    SubtleDeriveKey("HMAC", TextEncode(passphrase), XorBytes(salt, 92), AUTHOR_ITERATIONS)

\* AES-GCM: the messages the authoring run can seal (under the key of either
\* passphrase, a nonce, a content), in a fixed order.  A ciphertext is the
\* position of (key, iv, plaintext) in it, as long as the plaintext plus tag.
Sealed ==
    Tuple([n \in 1..(2 * 2 * Len(ContentSeq)) |->
        <<deriveEncryptionKey(PassphraseSeq[((n - 1) % 2) + 1], AuthorSalt),
          AuthorIv((((n - 1) \div 2) % 2) + 1),
          TextEncode(ContentSeq[((n - 1) \div 4) + 1])>>])

SubtleEncrypt(key, iv, plaintext) ==
    ToBytes(IndexOf(Sealed, <<key, iv, plaintext>>), Len(plaintext) + TAG_BYTES)

\* It throws (OperationError) unless the ciphertext was sealed under this key
\* and this iv.
SubtleDecrypt(key, iv, ciphertext) ==
    LET n == FromBytes(ciphertext)
    IN  IF /\ n \in 1..Len(Sealed)
           /\ Sealed[n][1] = key
           /\ Sealed[n][2] = iv
           /\ Len(ciphertext) = Len(Sealed[n][3]) + TAG_BYTES
        THEN Return(Sealed[n][3])
        ELSE Throw

(***************************************************************************)
(* The authoring script (README): per-document encryption.                 *)
(***************************************************************************)
\* iv is what crypto.getRandomValues drew.
encryptContent(key, content, iv) ==
    [iv |-> bufferToHex(iv),
     data |-> bufferToBase64(SubtleEncrypt(key, iv, TextEncode(content)))]

\* The loop of main over the documents.
encryptedFiles(passphrase, salt, docs) ==
    Tuple([i \in 1..Len(docs) |->
        LET encrypted ==
                encryptContent(deriveEncryptionKey(passphrase, salt),
                               docs[i].content, AuthorIv(i))
        IN  [id |-> AuthorId(i),
             title |-> docs[i].title,
             priority |-> docs[i].priority,
             tags |-> docs[i].tags,
             iv |-> encrypted.iv,
             data |-> encrypted.data]])

(***************************************************************************)
(* The file lists of the model: as authored, and as altered afterwards.    *)
(***************************************************************************)
SetChar(str, i, c) == Tuple([str EXCEPT ![i] = c])

\* One character of the first document's data replaced by another of the
\* base64 alphabet.
TamperData(files) ==
    [files EXCEPT ![1].data = SetChar(@, 1, IF @[1] = 65 THEN 66 ELSE 65)]

\* '*' is no base64 character, 'g' no hex digit.
MalformData(files) == [files EXCEPT ![1].data = SetChar(@, 1, 42)]
MalformIv(files) == [files EXCEPT ![1].iv = SetChar(@, 1, 103)]

\* The first document retitled; the documents listed in the reverse order.
TamperTitle(files) == [files EXCEPT ![1].title = SetChar(@, 1, 88)]
Reorder(files) == Tuple([i \in 1..Len(files) |-> files[Len(files) + 1 - i]])

BaseFiles == encryptedFiles(Passphrase, AuthorSalt, <<DocPlain>>)
PairFiles == encryptedFiles(Passphrase, AuthorSalt, <<DocNul, DocEmpty>>)

\* One entry of encryptedFiles, as the loop of main pushes it for the i-th
\* document under the nonce that was drawn.
encryptedFile(encryptionKey, parsed, i, iv) ==
    LET encrypted == encryptContent(encryptionKey, parsed.content, iv)
    IN  [id |-> AuthorId(i),
         title |-> parsed.title,
         priority |-> parsed.priority,
         tags |-> parsed.tags,
         iv |-> encrypted.iv,
         data |-> encrypted.data]

\* The docs directories of an authoring run, one or two markdown files, and
\* the nonces crypto.getRandomValues can hand to it.
DocSeq == <<DocPlain, DocNul, DocEmpty, DocBom>>

DocDirs ==
    Tuple([n \in 1..(Len(DocSeq) + Len(DocSeq) * Len(DocSeq)) |->
        IF n <= Len(DocSeq) THEN <<DocSeq[n]>>
        ELSE <<DocSeq[((n - Len(DocSeq) - 1) \div Len(DocSeq)) + 1],
               DocSeq[((n - Len(DocSeq) - 1) % Len(DocSeq)) + 1]>>])

Drawn == {AuthorIv(1), AuthorIv(2)}

\* Every list an authoring run can make of them, in a fixed order.
DrawnFiles ==
    Tuple([n \in 1..(4 * Len(DocDirs)) |->
        LET docs == DocDirs[((n - 1) \div 4) + 1]
            ivs == <<AuthorIv(((n - 1) % 2) + 1),
                     AuthorIv((((n - 1) \div 2) % 2) + 1)>>
        IN  Tuple([i \in 1..Len(docs) |->
                encryptedFile(deriveEncryptionKey(Passphrase, AuthorSalt),
                              docs[i], i, ivs[i])])])

FileLists ==
    <<BaseFiles,
      PairFiles,
      encryptedFiles(Passphrase, AuthorSalt, <<DocPlain, DocBom>>),
      TamperData(BaseFiles), MalformData(BaseFiles), MalformIv(BaseFiles),
      TamperTitle(BaseFiles), Reorder(PairFiles)>> \o DrawnFiles

(***************************************************************************)
(* HMAC-SHA256: the signed messages, in a fixed order.  A digest is the    *)
(* position of (key, message) in it, on SIG_LENGTH bytes.                  *)
(***************************************************************************)
Signed ==
    Tuple([n \in 1..(2 * Len(FileLists)) |->
        <<authorDeriveHmacKey(PassphraseSeq[((n - 1) % 2) + 1], AuthorSalt),
          TextEncode(JSONstringify(FileLists[((n - 1) \div 2) + 1]))>>])

SubtleSign(key, data) == ToBytes(IndexOf(Signed, <<key, data>>), SIG_LENGTH)

computeHmac(hmacKey, data) == bufferToHex(SubtleSign(hmacKey, TextEncode(data)))

\* main: the manifest written to vault.json (generatedAt, which the runtime
\* never reads, left out).
main(passphrase, salt, docs) ==
    LET files == encryptedFiles(passphrase, salt, docs)
    IN  [salt |-> bufferToHex(salt),
         hmac |-> computeHmac(authorDeriveHmacKey(passphrase, salt), JSONstringify(files)),
         files |-> files]

(***************************************************************************)
(* The manifests of the model.  An absent hmac and an empty one are the    *)
(* same to the runtime (!vaultData.hmac).                                  *)
(***************************************************************************)
Authored == {main(Passphrase, AuthorSalt, l) : l \in DocLists}

WithoutHmac(m) == [m EXCEPT !.hmac = <<>>]

BaseManifest == main(Passphrase, AuthorSalt, <<DocPlain>>)

PairManifest == main(Passphrase, AuthorSalt, <<DocNul, DocEmpty>>)

\* Manifests whose files were altered after signing, the hmac left as it was.
TamperedManifests ==
    {[BaseManifest EXCEPT !.files = TamperData(@)],
     [BaseManifest EXCEPT !.files = TamperTitle(@)],
     [PairManifest EXCEPT !.files = Reorder(@)]}

\* Manifests with a salt that is no hex string, or data that is no base64.
MalformedManifests ==
    {[BaseManifest EXCEPT !.salt = SetChar(@, 1, 103)],
     WithoutHmac([BaseManifest EXCEPT !.files = MalformData(@)])}

\* Manifests whose salt is hex of the wrong length: 8 bytes, not SALT_LENGTH.
ShortSaltManifests ==
    {[BaseManifest EXCEPT !.salt = SubSeq(@, 1, SALT_LENGTH)],
     WithoutHmac([BaseManifest EXCEPT !.salt = SubSeq(@, 1, SALT_LENGTH)])}

\* Manifests without a salt, or without files.
EmptyManifests ==
    {[BaseManifest EXCEPT !.salt = <<>>],
     [BaseManifest EXCEPT !.files = <<>>]}

Manifests ==
    Authored
    \cup {WithoutHmac(m) : m \in Authored}
    \cup TamperedManifests
    \cup {WithoutHmac([BaseManifest EXCEPT !.files = TamperData(@)])}
    \cup MalformedManifests
    \cup ShortSaltManifests
    \cup EmptyManifests

(***************************************************************************)
(* crypto.ts                                                               *)
(***************************************************************************)
importPasswordKey(passphrase) == TextEncode(passphrase)

deriveKey(passphrase, saltHex) ==
    LET salt == hexToBuffer(saltHex)
    IN  IF salt.threw THEN Throw
        ELSE Return(SubtleDeriveKey("AES-GCM", importPasswordKey(passphrase),
                                    salt.val, ITERATIONS))

deriveHmacKey(passphrase, saltHex) ==
    LET salt == hexToBuffer(saltHex)
    IN  IF salt.threw THEN Throw
        ELSE Return(SubtleDeriveKey("HMAC", importPasswordKey(passphrase),
                                    XorBytes(salt.val, 92), ITERATIONS))

\* result |= signatureArray[i] ^ expectedHmac[i], over every i of lo..hi (by
\* halves: | is associative).
RECURSIVE XorAccumulate(_, _, _, _)
XorAccumulate(a, b, lo, hi) ==
    IF lo > hi THEN 0
    ELSE IF lo = hi THEN BitXor(a[lo], b[lo])
    ELSE BitOr(XorAccumulate(a, b, lo, (lo + hi) \div 2),
               XorAccumulate(a, b, ((lo + hi) \div 2) + 1, hi))

\* A faulty variant of verifyHmac: the loop stops after the first byte.
verifyHmacFirstByte(hmacKey, data, expectedHmacHex) ==
    LET dataBuffer == TextEncode(data)
        expectedHmac == hexToBuffer(expectedHmacHex)
        signatureArray == SubtleSign(hmacKey, dataBuffer)
    IN  IF expectedHmac.threw THEN Throw
        ELSE IF Len(signatureArray) # Len(expectedHmac.val) THEN Return(FALSE)
        ELSE Return(XorAccumulate(signatureArray, expectedHmac.val, 1, 1) = 0)

\* A faulty variant of verifyHmacExamined: the loop leaves at the first
\* byte that differs.
verifyHmacExaminedToMismatch(hmacKey, data, expectedHmacHex) ==
    LET expectedHmac == hexToBuffer(expectedHmacHex)
        signatureArray == SubtleSign(hmacKey, TextEncode(data))
        differ == {i \in 1..Len(signatureArray) :
                      signatureArray[i] # expectedHmac.val[i]}
    IN  IF expectedHmac.threw \/ Len(signatureArray) # Len(expectedHmac.val)
        THEN 0
        ELSE IF differ = {} THEN Len(signatureArray)
        ELSE CHOOSE i \in differ : \A j \in differ : i <= j

\* The number of byte positions verifyHmac's loop reads: it has no break,
\* and is not reached when hexToBuffer throws or the lengths differ.
verifyHmacExamined(hmacKey, data, expectedHmacHex) ==
    LET expectedHmac == hexToBuffer(expectedHmacHex)
        signatureArray == SubtleSign(hmacKey, TextEncode(data))
    IN  IF expectedHmac.threw \/ Len(signatureArray) # Len(expectedHmac.val)
        THEN 0
        ELSE Len(signatureArray)

verifyHmac(hmacKey, data, expectedHmacHex) ==
    LET dataBuffer == TextEncode(data)
        expectedHmac == hexToBuffer(expectedHmacHex)
        signatureArray == SubtleSign(hmacKey, dataBuffer)
    IN  IF expectedHmac.threw THEN Throw
        ELSE IF Len(signatureArray) # Len(expectedHmac.val) THEN Return(FALSE)
        ELSE Return(XorAccumulate(signatureArray, expectedHmac.val,
                                  1, Len(signatureArray)) = 0)

decryptData(key, ivHex, encryptedBase64) ==
    LET iv == hexToBuffer(ivHex)
        encryptedData == base64ToBuffer(encryptedBase64)
    IN  IF iv.threw \/ encryptedData.threw THEN Throw
        ELSE LET decryptedBuffer == SubtleDecrypt(key, iv.val, encryptedData.val)
             IN  IF decryptedBuffer.threw THEN Throw
                 ELSE Return(TextDecode(decryptedBuffer.val))

(***************************************************************************)
(* The state.                                                              *)
(***************************************************************************)
VARIABLES
    vaultData,           \* the manifest bundled with the application
    isUnlocked, masterKey, decryptedFiles, error, errorMessage,
    isDecrypting, lockoutRemainingMs,        \* the auth store
    attempts, lockedUntil, lastAttempt,      \* globalRateLimiter.state
    now,                 \* Date.now()
    calls,               \* the unlock calls suspended at an await
    displayLockout,      \* UnlockScreen's state
    last,                \* history: the operation the last step completed
    failedSinceSuccess,  \* history: unlocks failed since the last success
    timeout,             \* setupInactivityHandler's timer: when it is due
    sessionStorage,      \* window.sessionStorage: (key, value) pairs
    event,               \* history: the DOM event the last step handled
    activeSince,         \* history: when the store was unlocked or last used
    cleared,             \* history: when the timer last cleared would have been due
    probe,               \* a function of crypto.ts under test: call and result
    author               \* a run of the authoring script (README)

store == <<isUnlocked, masterKey, decryptedFiles, error, errorMessage,
           isDecrypting, lockoutRemainingMs>>
limiter == <<attempts, lockedUntil, lastAttempt>>
history == <<last, failedSinceSuccess>>
session == <<timeout, sessionStorage, event, activeSince, cleared>>
bench == <<probe, author>>
vars == <<vaultData, store, limiter, now, calls, displayLockout, history,
          session, bench>>

\* No timer is pending (a timer of the model is due after time 0).
NoTimer == 0

\* No event, no function under test, no authoring run.
NoEvent == [type |-> "none", key |-> <<>>, ctrlKey |-> FALSE,
            shiftKey |-> FALSE, altKey |-> FALSE]
NoProbe == [fn |-> "none"]
NoRun == [pc |-> "none"]

\* Failures after which the model starts no further unlock.
MaxFailures == 5

\* AuthError's null.
NoError == "null"

(***************************************************************************)
(* security.ts: RateLimiter.                                               *)
(***************************************************************************)
\* A faulty variant of isLocked: it lets go a quantum early.
isLockedShort == now + Quantum < lockedUntil

isLocked == now < lockedUntil

\* A faulty variant of getRemainingLockoutMs: the whole lockout, measured
\* from the attempt that started it.
getRemainingLockoutMsFromAttempt ==
    LET remaining == lockedUntil - lastAttempt
    IN  IF remaining > 0 THEN remaining ELSE 0

getRemainingLockoutMs ==
    LET remaining == lockedUntil - now
    IN  IF remaining > 0 THEN remaining ELSE 0

\* A faulty variant of lockoutDuration: no cap.
lockoutDurationUncapped(n) ==
    LOCKOUT_BASE_MS * Pow(LOCKOUT_MULTIPLIER, n - MAX_UNLOCK_ATTEMPTS)

lockoutDuration(n) ==
    Min(LOCKOUT_BASE_MS * Pow(LOCKOUT_MULTIPLIER, n - MAX_UNLOCK_ATTEMPTS),
        MAX_LOCKOUT_MS)

\* A faulty variant of recordAttempt: the count starts over once a lockout
\* has expired.
recordAttemptRestarting ==
    /\ attempts' = IF lockedUntil > 0 /\ now >= lockedUntil THEN 1 ELSE attempts + 1
    /\ lastAttempt' = now
    /\ lockedUntil' = IF attempts' >= MAX_UNLOCK_ATTEMPTS
                      THEN now + Min(LOCKOUT_BASE_MS
                                       * Pow(LOCKOUT_MULTIPLIER,
                                             attempts' - MAX_UNLOCK_ATTEMPTS),
                                     MAX_LOCKOUT_MS)
                      ELSE lockedUntil

\* A faulty variant of recordAttempt: the lockout starts one failure early.
recordAttemptLockingEarly ==
    /\ attempts' = attempts + 1
    /\ lastAttempt' = now
    /\ lockedUntil' = IF attempts + 2 >= MAX_UNLOCK_ATTEMPTS
                      THEN now + LOCKOUT_BASE_MS
                      ELSE lockedUntil

\* A faulty variant of recordAttempt: each further failure halves the
\* lockout.
recordAttemptHalving ==
    /\ attempts' = attempts + 1
    /\ lastAttempt' = now
    /\ lockedUntil' = IF attempts + 1 >= MAX_UNLOCK_ATTEMPTS
                      THEN now + (MAX_LOCKOUT_MS
                                    \div Pow(LOCKOUT_MULTIPLIER,
                                             attempts + 1 - MAX_UNLOCK_ATTEMPTS))
                      ELSE lockedUntil

recordAttempt ==
    /\ attempts' = attempts + 1
    /\ lastAttempt' = now
    /\ lockedUntil' = IF attempts + 1 >= MAX_UNLOCK_ATTEMPTS
                      THEN now + lockoutDuration(attempts + 1)
                      ELSE lockedUntil

\* A faulty variant of reset: lockedUntil is left as it is.
resetCountOnly ==
    /\ attempts' = 0
    /\ lastAttempt' = 0
    /\ UNCHANGED lockedUntil

reset ==
    /\ attempts' = 0
    /\ lockedUntil' = 0
    /\ lastAttempt' = 0

(***************************************************************************)
(* authStore.ts                                                            *)
(***************************************************************************)
getErrorMessage(e) ==
    CASE e = "INVALID_PASSPHRASE" -> "Access denied"
      [] e = "RATE_LIMITED" -> "Too many attempts. Please wait."
      [] e = "INTEGRITY_FAILURE" -> "Vault integrity check failed"
      [] e = "VAULT_EMPTY" -> "No vault data available"
      [] OTHER -> ""

\* verifyVaultIntegrity once its awaits have settled, for a given manifest.
IntegrityOf(manifest, passphrase) ==
    IF manifest.hmac = <<>> THEN Return(TRUE)
    ELSE LET hmacKey == deriveHmacKey(passphrase, manifest.salt)
         IN  IF hmacKey.threw THEN Throw
             ELSE verifyHmac(hmacKey.val, JSONstringify(manifest.files), manifest.hmac)

\* The same, tabulated: the manifest never changes and the passphrases are few.
IntegrityTable ==
    [m \in Manifests |-> [p \in Passphrases |-> IntegrityOf(m, p)] @@ <<>>] @@ <<>>

\* A faulty variant of verifyVaultIntegrity: the check is skipped.
verifyVaultIntegritySkipped(passphrase) == Return(TRUE)

verifyVaultIntegrity(passphrase) == IntegrityTable[vaultData][passphrase]

\* An unlock call suspended at an await: where, with what locals, and (history)
\* whether wipe ran since it started.
Idle == [pc |-> "idle", passphrase |-> <<>>, key |-> NULL, index |-> 0,
         decrypted |-> <<>>, wiped |-> FALSE]

Slots == 1..MaxInFlight

InFlight == {i \in Slots : calls[i].pc # "idle"}

FreeSlot == CHOOSE i \in Slots \ InFlight : \A j \in Slots \ InFlight : i <= j

\* The last step completed no operation.
Quiet == [op |-> "none", passphrase |-> <<>>, before |-> 0, wiped |-> FALSE]

\* The step completes operation op of call c; before is the attempts count
\* the step found.
Done(op, c) ==
    last' = [op |-> op, passphrase |-> c.passphrase, before |-> attempts,
             wiped |-> c.wiped]

\* A faulty variant of Catch: the failure is not recorded.
CatchUnrecorded(c) ==
    /\ UNCHANGED limiter
    /\ error' = "INVALID_PASSPHRASE"
    /\ errorMessage' = getErrorMessage("INVALID_PASSPHRASE")
    /\ isDecrypting' = FALSE
    /\ masterKey' = NULL
    /\ lockoutRemainingMs' = getRemainingLockoutMs
    /\ UNCHANGED <<isUnlocked, decryptedFiles>>
    /\ Done("catch", c)
    /\ failedSinceSuccess' = failedSinceSuccess + 1

\* A faulty variant of Catch: isDecrypting is left set.
CatchStillDecrypting(c) ==
    /\ recordAttempt
    /\ error' = "INVALID_PASSPHRASE"
    /\ errorMessage' = getErrorMessage("INVALID_PASSPHRASE")
    /\ masterKey' = NULL
    /\ lockoutRemainingMs' = getRemainingLockoutMs'
    /\ UNCHANGED <<isUnlocked, decryptedFiles, isDecrypting>>
    /\ Done("catch", c)
    /\ failedSinceSuccess' = failedSinceSuccess + 1

\* The catch block of unlock.
Catch(c) ==
    /\ recordAttempt
    /\ error' = "INVALID_PASSPHRASE"
    /\ errorMessage' = getErrorMessage("INVALID_PASSPHRASE")
    /\ isDecrypting' = FALSE
    /\ masterKey' = NULL
    /\ lockoutRemainingMs' = getRemainingLockoutMs'
    /\ UNCHANGED <<isUnlocked, decryptedFiles>>
    /\ Done("catch", c)
    /\ failedSinceSuccess' = failedSinceSuccess + 1

\* A faulty variant of IntegrityFailure: the failure is not recorded.
IntegrityFailureUnrecorded(c) ==
    /\ UNCHANGED limiter
    /\ error' = "INTEGRITY_FAILURE"
    /\ errorMessage' = getErrorMessage("INTEGRITY_FAILURE")
    /\ isDecrypting' = FALSE
    /\ lockoutRemainingMs' = getRemainingLockoutMs
    /\ UNCHANGED <<isUnlocked, masterKey, decryptedFiles>>
    /\ Done("integrity", c)
    /\ failedSinceSuccess' = failedSinceSuccess + 1

\* if (!integrityValid) { ... return; }
IntegrityFailure(c) ==
    /\ recordAttempt
    /\ error' = "INTEGRITY_FAILURE"
    /\ errorMessage' = getErrorMessage("INTEGRITY_FAILURE")
    /\ isDecrypting' = FALSE
    /\ lockoutRemainingMs' = getRemainingLockoutMs'
    /\ UNCHANGED <<isUnlocked, masterKey, decryptedFiles>>
    /\ Done("integrity", c)
    /\ failedSinceSuccess' = failedSinceSuccess + 1

\* globalRateLimiter.reset(); set({ isUnlocked: true, ... })
Success(c, decrypted) ==
    /\ reset
    /\ isUnlocked' = TRUE
    /\ masterKey' = c.key
    /\ decryptedFiles' = decrypted
    /\ isDecrypting' = FALSE
    /\ error' = NoError
    /\ errorMessage' = ""
    /\ UNCHANGED lockoutRemainingMs
    /\ Done("success", c)
    /\ failedSinceSuccess' = 0

\* set({ isDecrypting: true, error: null, errorMessage: '' }), and the call
\* waits at an await.
Suspend(i, c) ==
    /\ calls' = [calls EXCEPT ![i] = c]
    /\ last' = Quiet
    /\ UNCHANGED <<limiter, failedSinceSuccess>>

\* A faulty variant of Decrypt: the store is set as soon as one file is
\* decrypted.
DecryptFirstOnly(i, c, index, decrypted) ==
    IF index > 1 THEN
        /\ Success(c, decrypted)
        /\ calls' = [calls EXCEPT ![i] = Idle]
    ELSE IF \/ hexToBuffer(vaultData.files[index].iv).threw
            \/ base64ToBuffer(vaultData.files[index].data).threw THEN
        /\ Catch(c)
        /\ calls' = [calls EXCEPT ![i] = Idle]
    ELSE
        /\ Suspend(i, [c EXCEPT !.pc = "decrypt", !.index = index,
                                !.decrypted = decrypted])
        /\ UNCHANGED store

\* The loop reaches file number index with the files before it decrypted:
\* decryptData converts iv and data before its await.
Decrypt(i, c, index, decrypted) ==
    IF index > Len(vaultData.files) THEN
        /\ Success(c, decrypted)
        /\ calls' = [calls EXCEPT ![i] = Idle]
    ELSE IF \/ hexToBuffer(vaultData.files[index].iv).threw
            \/ base64ToBuffer(vaultData.files[index].data).threw THEN
        /\ Catch(c)
        /\ calls' = [calls EXCEPT ![i] = Idle]
    ELSE
        /\ Suspend(i, [c EXCEPT !.pc = "decrypt", !.index = index,
                                !.decrypted = decrypted])
        /\ UNCHANGED store

\* unlock(passphrase), up to its first await that waits on the platform: in
\* verifyVaultIntegrity when the manifest has an hmac, in deriveKey when not.
\* The gate of unlock: the limiter is locked, and the call ends at once.
RateLimited(c) ==
    /\ error' = "RATE_LIMITED"
    /\ errorMessage' = getErrorMessage("RATE_LIMITED")
    /\ lockoutRemainingMs' = getRemainingLockoutMs
    /\ UNCHANGED <<isUnlocked, masterKey, decryptedFiles, isDecrypting>>
    /\ UNCHANGED <<limiter, calls, failedSinceSuccess>>
    /\ Done("gate", c)

\* A faulty variant of VaultEmpty: the empty vault counts as a failed attempt.
VaultEmptyRecorded(c) ==
    /\ recordAttempt
    /\ error' = "VAULT_EMPTY"
    /\ errorMessage' = getErrorMessage("VAULT_EMPTY")
    /\ isDecrypting' = FALSE
    /\ UNCHANGED <<isUnlocked, masterKey, decryptedFiles, lockoutRemainingMs>>
    /\ UNCHANGED <<calls, failedSinceSuccess>>
    /\ Done("empty", c)

\* The vault has no salt or no files: isDecrypting was set one statement
\* earlier and is cleared in the same synchronous run.
VaultEmpty(c) ==
    /\ error' = "VAULT_EMPTY"
    /\ errorMessage' = getErrorMessage("VAULT_EMPTY")
    /\ isDecrypting' = FALSE
    /\ UNCHANGED <<isUnlocked, masterKey, decryptedFiles, lockoutRemainingMs>>
    /\ UNCHANGED <<limiter, calls, failedSinceSuccess>>
    /\ Done("empty", c)

unlock(passphrase) ==
    LET c == [Idle EXCEPT !.passphrase = passphrase]
    IN  /\ attempts < MaxFailures \/ isLocked
        /\ InFlight # Slots
        /\ UNCHANGED <<vaultData, now>>
        /\ IF isLocked THEN
               RateLimited(c)
           ELSE IF vaultData.salt = <<>> \/ Len(vaultData.files) = 0 THEN
               VaultEmpty(c)
           ELSE
               /\ isDecrypting' = TRUE
               /\ error' = NoError
               /\ errorMessage' = ""
               /\ UNCHANGED <<isUnlocked, masterKey, decryptedFiles, lockoutRemainingMs>>
               /\ Suspend(FreeSlot,
                          [c EXCEPT !.pc = IF vaultData.hmac = <<>>
                                           THEN "derive" ELSE "verify"])

\* A faulty variant of ResumeVerify: the call goes on whatever the check said.
ResumeVerifyIgnored(i) ==
    LET c == calls[i]
    IN  /\ c.pc = "verify"
        /\ UNCHANGED <<vaultData, now>>
        /\ Suspend(i, [c EXCEPT !.pc = "derive"])
        /\ UNCHANGED store

\* await verifyVaultIntegrity(passphrase) settles.
ResumeVerify(i) ==
    LET c == calls[i]
        integrityValid == verifyVaultIntegrity(c.passphrase)
    IN  /\ c.pc = "verify"
        /\ UNCHANGED <<vaultData, now>>
        /\ IF integrityValid.threw THEN
               /\ Catch(c)
               /\ calls' = [calls EXCEPT ![i] = Idle]
           ELSE IF ~integrityValid.val THEN
               /\ IntegrityFailure(c)
               /\ calls' = [calls EXCEPT ![i] = Idle]
           ELSE
               /\ Suspend(i, [c EXCEPT !.pc = "derive"])
               /\ UNCHANGED store

\* await deriveKey(passphrase, saltHex) settles, and the loop starts.
ResumeDerive(i) ==
    LET c == calls[i]
        key == deriveKey(c.passphrase, vaultData.salt)
    IN  /\ c.pc = "derive"
        /\ UNCHANGED <<vaultData, now>>
        /\ IF key.threw THEN
               /\ Catch(c)
               /\ calls' = [calls EXCEPT ![i] = Idle]
           ELSE
               Decrypt(i, [c EXCEPT !.key = key.val], 1, <<>>)

\* await decryptData(key, file.iv, file.data) settles, and the loop goes on.
ResumeDecrypt(i) ==
    LET c == calls[i]
        file == vaultData.files[c.index]
        content == decryptData(c.key, file.iv, file.data)
    IN  /\ c.pc = "decrypt"
        /\ UNCHANGED <<vaultData, now>>
        /\ IF content.threw THEN
               /\ Catch(c)
               /\ calls' = [calls EXCEPT ![i] = Idle]
           ELSE
               Decrypt(i, c, c.index + 1,
                       Append(c.decrypted,
                              [id |-> file.id, title |-> file.title,
                               priority |-> file.priority, tags |-> file.tags,
                               content |-> content.val]))

\* A faulty variant of wipe: the key is left in the store.
wipeKeepingKey ==
    /\ isUnlocked' = FALSE
    /\ UNCHANGED masterKey
    /\ decryptedFiles' = <<>>
    /\ error' = NoError
    /\ errorMessage' = ""
    /\ isDecrypting' = FALSE
    /\ calls' = [i \in Slots |-> IF i \in InFlight
                                 THEN [calls[i] EXCEPT !.wiped = TRUE]
                                 ELSE calls[i]]
    /\ Done("wipe", Idle)
    /\ UNCHANGED <<vaultData, now, lockoutRemainingMs, limiter, failedSinceSuccess>>

\* A faulty variant of wipe: the limiter is reset with the session.
wipeResettingLimiter ==
    /\ isUnlocked' = FALSE
    /\ masterKey' = NULL
    /\ decryptedFiles' = <<>>
    /\ error' = NoError
    /\ errorMessage' = ""
    /\ isDecrypting' = FALSE
    /\ calls' = [i \in Slots |-> IF i \in InFlight
                                 THEN [calls[i] EXCEPT !.wiped = TRUE]
                                 ELSE calls[i]]
    /\ Done("wipe", Idle)
    /\ reset
    /\ UNCHANGED <<vaultData, now, lockoutRemainingMs, failedSinceSuccess>>

\* A faulty variant of wipe: error, errorMessage and isDecrypting are left as
\* they are.
wipeKeepingFlags ==
    /\ isUnlocked' = FALSE
    /\ masterKey' = NULL
    /\ decryptedFiles' = <<>>
    /\ UNCHANGED <<error, errorMessage, isDecrypting>>
    /\ calls' = [i \in Slots |-> IF i \in InFlight
                                 THEN [calls[i] EXCEPT !.wiped = TRUE]
                                 ELSE calls[i]]
    /\ Done("wipe", Idle)
    /\ UNCHANGED <<vaultData, now, lockoutRemainingMs, limiter, failedSinceSuccess>>

wipe ==
    /\ isUnlocked' = FALSE
    /\ masterKey' = NULL
    /\ decryptedFiles' = <<>>
    /\ error' = NoError
    /\ errorMessage' = ""
    /\ isDecrypting' = FALSE
    /\ calls' = [i \in Slots |-> IF i \in InFlight
                                 THEN [calls[i] EXCEPT !.wiped = TRUE]
                                 ELSE calls[i]]
    /\ Done("wipe", Idle)
    /\ UNCHANGED <<vaultData, now, lockoutRemainingMs, limiter, failedSinceSuccess>>

updateLockoutTime ==
    /\ lockoutRemainingMs' = getRemainingLockoutMs
    /\ last' = Quiet
    /\ UNCHANGED <<vaultData, now, isUnlocked, masterKey, decryptedFiles, error,
                   errorMessage, isDecrypting, limiter, calls, failedSinceSuccess>>

\* Time passes.  The program reads the clock only against lockedUntil: the
\* model watches it while a lockout is pending.
Tick ==
    /\ now < MaxTicks * Quantum
    /\ isLocked
    /\ now' = now + Quantum
    /\ last' = Quiet
    /\ UNCHANGED <<vaultData, store, limiter, calls, failedSinceSuccess>>

(***************************************************************************)
(* The store, driven through its interface: unlock, wipe and               *)
(* updateLockoutTime called at any time.                                   *)
(***************************************************************************)
\* The application as it loads.
Loaded ==
    /\ isUnlocked = FALSE
    /\ masterKey = NULL
    /\ decryptedFiles = <<>>
    /\ error = NoError
    /\ errorMessage = ""
    /\ isDecrypting = FALSE
    /\ lockoutRemainingMs = 0
    /\ attempts = 0
    /\ lockedUntil = 0
    /\ lastAttempt = 0
    /\ now = 0
    /\ calls = [i \in Slots |-> Idle]
    /\ displayLockout = 0
    /\ last = Quiet
    /\ failedSinceSuccess = 0
    /\ timeout = NoTimer
    /\ sessionStorage = {}
    /\ event = NoEvent
    /\ activeSince = 0
    /\ cleared = NoTimer

Init ==
    /\ vaultData \in Manifests
    /\ Loaded
    /\ probe = NoProbe
    /\ author = NoRun

Next ==
    \/ \E p \in Passphrases : unlock(p) /\ UNCHANGED <<displayLockout, session, bench>>
    \/ \E i \in Slots : ResumeVerify(i) /\ UNCHANGED <<displayLockout, session, bench>>
    \/ \E i \in Slots : ResumeDerive(i) /\ UNCHANGED <<displayLockout, session, bench>>
    \/ \E i \in Slots : ResumeDecrypt(i) /\ UNCHANGED <<displayLockout, session, bench>>
    \/ wipe /\ UNCHANGED <<displayLockout, session, bench>>
    \/ Tick /\ UNCHANGED <<displayLockout, session, bench>>

Spec == Init /\ [][Next]_vars

\* The promise call i awaits settles: each primitive of crypto.subtle
\* returns or throws, and the continuation runs.
Settle(i) ==
    /\ ResumeVerify(i) \/ ResumeDerive(i) \/ ResumeDecrypt(i)
    /\ UNCHANGED <<displayLockout, session, bench>>

\* Manifests that take unlock through each of its paths.
LiveManifests ==
    {PairManifest, WithoutHmac(PairManifest)}
    \cup MalformedManifests \cup EmptyManifests

LiveInit ==
    /\ vaultData \in LiveManifests
    /\ Loaded
    /\ probe = NoProbe
    /\ author = NoRun

\* The same store, with every awaited promise settling in the end: weak
\* fairness of Settle(i), WF_vars(Settle(i)), written out.  Settle(i) is
\* enabled exactly while call i is in flight.
LiveSpec ==
    /\ LiveInit
    /\ [][Next]_vars
    /\ \A i \in Slots :
          []<>(calls[i].pc = "idle") \/ []<><<Settle(i)>>_vars

(***************************************************************************)
(* The application: the store driven by UnlockScreen and App.              *)
(***************************************************************************)
\* UnlockScreen is mounted while the store is locked.  Its effect on
\* lockoutRemainingMs runs when it mounts and when the value changes, and
\* copies a positive value into displayLockout; unmounting drops the state.
LockoutEffect ==
    displayLockout' =
        IF isUnlocked' THEN 0
        ELSE IF /\ lockoutRemainingMs' > 0
                /\ (lockoutRemainingMs' # lockoutRemainingMs \/ isUnlocked)
             THEN lockoutRemainingMs'
        ELSE displayLockout

handleSubmit(passphrase) ==
    /\ ~isUnlocked
    /\ ~(passphrase = <<>> \/ isDecrypting \/ displayLockout > 0)
    /\ unlock(passphrase)
    /\ LockoutEffect

\* The callback of the effect's setInterval.
lockoutInterval ==
    /\ ~isUnlocked
    /\ lockoutRemainingMs > 0
    /\ displayLockout' = getRemainingLockoutMs
    /\ IF getRemainingLockoutMs <= 0
       THEN updateLockoutTime
       ELSE /\ last' = Quiet
            /\ UNCHANGED <<vaultData, now, store, limiter, calls, failedSinceSuccess>>

handleBeforeUnload == wipe /\ LockoutEffect

\* The lock button of App, rendered while the store is unlocked.
onClickLock ==
    /\ isUnlocked
    /\ wipe
    /\ LockoutEffect

AppNext ==
    \/ \E p \in Passphrases : handleSubmit(p) /\ UNCHANGED <<session, bench>>
    \/ \E i \in Slots : ResumeVerify(i) /\ LockoutEffect /\ UNCHANGED <<session, bench>>
    \/ \E i \in Slots : ResumeDerive(i) /\ LockoutEffect /\ UNCHANGED <<session, bench>>
    \/ \E i \in Slots : ResumeDecrypt(i) /\ LockoutEffect /\ UNCHANGED <<session, bench>>
    \/ lockoutInterval /\ UNCHANGED <<session, bench>>
    \/ handleBeforeUnload /\ UNCHANGED <<session, bench>>
    \/ onClickLock /\ UNCHANGED <<session, bench>>
    \/ Tick /\ UNCHANGED <<displayLockout, session, bench>>

AppSpec == Init /\ [][AppNext]_vars

(***************************************************************************)
(* The session: App's triggers (security.ts) next to the unlock screen.    *)
(* The clock runs in thirds of the session timeout.                        *)
(***************************************************************************)
SESSION_TIMEOUT_MS == 15 * 60 * 1000

\* "L"
PANIC_KEY == <<76>>

SessionQuantum == SESSION_TIMEOUT_MS \div 3

\* The clock of the session stops here unless a timer is pending.
MaxSessionTicks == 2

\* Failures after which the session starts no further unlock.
MaxSessionFailures == 1

\* String.prototype.toUpperCase, on the letters a to z.
ToUpperCase(str) ==
    Tuple([i \in 1..Len(str) |->
        IF str[i] \in 97..122 THEN str[i] - 32 ELSE str[i]])

\* Number.prototype.toString of a non-negative integer: decimal digits.
RECURSIVE NumberToString(_)
NumberToString(n) ==
    IF n < 10 THEN <<48 + n>>
    ELSE Append(NumberToString(n \div 10), 48 + (n % 10))

\* Storage.setItem.
setItem(storage, key, value) ==
    {e \in storage : e[1] # key} \cup {<<key, value>>}

\* keydown events: "l", "L" and "k", with and without Ctrl, Shift and Alt.
KeyboardEvents ==
    [type : {"keydown"}, key : {<<108>>, <<76>>, <<107>>},
     ctrlKey : BOOLEAN, shiftKey : BOOLEAN, altKey : BOOLEAN]

\* The other events setupInactivityHandler listens to.
PointerEvents == {"mousedown", "scroll", "touchstart", "mousemove"}

Event(type) == [NoEvent EXCEPT !.type = type]

\* A faulty variant of TriggerEffect: the cleanup leaves the timer pending.
TriggerEffectKeepingTimer ==
    /\ timeout' = IF timeout # NoTimer THEN timeout
                  ELSE IF ~isUnlocked /\ isUnlocked' THEN now' + SESSION_TIMEOUT_MS
                  ELSE timeout
    /\ activeSince' = IF ~isUnlocked /\ isUnlocked' THEN now' ELSE activeSince
    /\ cleared' = IF isUnlocked /\ ~isUnlocked'
                  THEN IF now' < timeout THEN timeout ELSE NoTimer
                  ELSE cleared

\* App's effect on isUnlocked: the handlers are set up (the timer started)
\* when the store unlocks, and removed (the timer cleared) when it locks.
TriggerEffect ==
    /\ timeout' = IF ~isUnlocked' THEN NoTimer
                  ELSE IF ~isUnlocked THEN now' + SESSION_TIMEOUT_MS
                  ELSE timeout
    /\ activeSince' = IF ~isUnlocked /\ isUnlocked' THEN now' ELSE activeSince
    /\ cleared' = IF isUnlocked /\ ~isUnlocked'
                  THEN IF now' < timeout THEN timeout ELSE NoTimer
                  ELSE cleared

\* A faulty variant of resetTimer: a pending timer is left as it is.
resetTimerOnce ==
    timeout' = IF timeout = NoTimer THEN now + SESSION_TIMEOUT_MS ELSE timeout

\* setupInactivityHandler's resetTimer.
resetTimer == timeout' = now + SESSION_TIMEOUT_MS

\* A faulty variant of isPanicKey: the key is compared as it is.
isPanicKeyExact(e) ==
    /\ e.key = PANIC_KEY
    /\ e.ctrlKey = TRUE
    /\ e.shiftKey = TRUE

\* The condition of setupPanicKeyHandler's handler.
isPanicKey(e) ==
    /\ ToUpperCase(e.key) = PANIC_KEY
    /\ e.ctrlKey = TRUE
    /\ e.shiftKey = TRUE

\* A step of the unlock screen or of an unlock call, in the session.
Screen(A) ==
    /\ A
    /\ TriggerEffect
    /\ event' = NoEvent
    /\ UNCHANGED <<sessionStorage, bench>>

\* A faulty variant of handleBeforeUnloadEvent: nothing is wiped.
handleBeforeUnloadIdle ==
    /\ last' = Quiet
    /\ event' = Event("beforeunload")
    /\ UNCHANGED <<vaultData, now, store, limiter, calls, failedSinceSuccess,
                   displayLockout, timeout, sessionStorage, activeSince, cleared, bench>>

\* beforeunload: App's handler, installed whatever the state of the store.
handleBeforeUnloadEvent ==
    /\ handleBeforeUnload
    /\ TriggerEffect
    /\ event' = Event("beforeunload")
    /\ UNCHANGED <<sessionStorage, bench>>

\* A click on the lock button.
onClickLockEvent ==
    /\ onClickLock
    /\ TriggerEffect
    /\ event' = Event("click")
    /\ UNCHANGED <<sessionStorage, bench>>

\* A user input that is no keydown, while the handlers are installed.
onPointerEvent(type) ==
    /\ isUnlocked
    /\ now < MaxSessionTicks * SessionQuantum
    /\ resetTimer
    /\ activeSince' = now
    /\ UNCHANGED cleared
    /\ event' = Event(type)
    /\ last' = Quiet
    /\ UNCHANGED <<vaultData, now, store, limiter, calls, failedSinceSuccess,
                   displayLockout, sessionStorage, bench>>

\* A keydown while the handlers are installed: the panic handler runs in the
\* capture phase; it wipes and stops the event, or leaves it to resetTimer.
onKeyDown(e) ==
    /\ isUnlocked
    /\ now < MaxSessionTicks * SessionQuantum
    /\ event' = e
    /\ IF isPanicKey(e) THEN
           /\ wipe
           /\ LockoutEffect
           /\ TriggerEffect
       ELSE
           /\ resetTimer
           /\ activeSince' = now
           /\ UNCHANGED cleared
           /\ last' = Quiet
           /\ UNCHANGED <<vaultData, now, store, limiter, calls,
                          failedSinceSuccess, displayLockout>>
    /\ UNCHANGED <<sessionStorage, bench>>

\* A faulty variant of visibilityHandler: hiding the view wipes the store.
visibilityHandlerWiping(visibilityState) ==
    /\ isUnlocked
    /\ event' = Event(visibilityState)
    /\ sessionStorage' =
          IF visibilityState = "hidden"
          THEN setItem(sessionStorage, "cv_hidden_at", NumberToString(now))
          ELSE sessionStorage
    /\ wipe
    /\ LockoutEffect
    /\ TriggerEffect
    /\ UNCHANGED bench

\* A faulty variant of visibilityHandler: the key goes along.
visibilityHandlerLeaking(visibilityState) ==
    /\ isUnlocked
    /\ event' = Event(visibilityState)
    /\ sessionStorage' =
          IF visibilityState = "hidden"
          THEN setItem(setItem(sessionStorage, "cv_hidden_at", NumberToString(now)),
                       "cv_key", masterKey)
          ELSE sessionStorage
    /\ last' = Quiet
    /\ UNCHANGED <<vaultData, now, store, limiter, calls, failedSinceSuccess,
                   displayLockout, timeout, activeSince, cleared, bench>>

\* visibilitychange while the handlers are installed.
visibilityHandler(visibilityState) ==
    /\ isUnlocked
    /\ event' = Event(visibilityState)
    /\ sessionStorage' =
          IF visibilityState = "hidden"
          THEN setItem(sessionStorage, "cv_hidden_at", NumberToString(now))
          ELSE sessionStorage
    /\ last' = Quiet
    /\ UNCHANGED <<vaultData, now, store, limiter, calls, failedSinceSuccess,
                   displayLockout, timeout, activeSince, cleared, bench>>

\* The timer of setupInactivityHandler is due: wipe is its callback.
inactivityTimeout ==
    /\ timeout # NoTimer
    /\ now >= timeout
    /\ wipe
    /\ LockoutEffect
    /\ TriggerEffect
    /\ event' = Event("timeout")
    /\ UNCHANGED <<sessionStorage, bench>>

\* Time passes, up to the moment a pending timer is due.
SessionTick ==
    /\ IF timeout = NoTimer
       THEN now < MaxSessionTicks * SessionQuantum
       ELSE now < timeout
    /\ now' = now + SessionQuantum
    /\ last' = Quiet
    /\ event' = NoEvent
    /\ UNCHANGED <<vaultData, store, limiter, calls, failedSinceSuccess,
                   displayLockout, timeout, sessionStorage, activeSince, cleared, bench>>

SessionManifests == {BaseManifest, WithoutHmac(BaseManifest)}

SessionInit == Init /\ vaultData \in SessionManifests

\* Fewer than MAX_UNLOCK_ATTEMPTS failures are observed in a session, so no
\* lockout starts and the unlock screen's interval is never installed.
SessionNext ==
    \/ \E p \in Passphrases :
          /\ attempts < MaxSessionFailures
          /\ now <= MaxSessionTicks * SessionQuantum
          /\ Screen(handleSubmit(p))
    \/ \E i \in Slots : Screen(ResumeVerify(i) /\ LockoutEffect)
    \/ \E i \in Slots : Screen(ResumeDerive(i) /\ LockoutEffect)
    \/ \E i \in Slots : Screen(ResumeDecrypt(i) /\ LockoutEffect)
    \/ handleBeforeUnloadEvent
    \/ onClickLockEvent
    \/ \E type \in PointerEvents : onPointerEvent(type)
    \/ \E e \in KeyboardEvents : onKeyDown(e)
    \/ \E visibilityState \in {"hidden", "visible"} :
          visibilityHandler(visibilityState)
    \/ inactivityTimeout
    \/ SessionTick

\* Time passes and a timer that is due runs its callback.
SessionSpec ==
    /\ SessionInit
    /\ [][SessionNext]_vars
    /\ WF_vars(SessionTick)
    /\ WF_vars(inactivityTimeout)

(***************************************************************************)
(* The rate limiter on its own: recordAttempt and reset called at any      *)
(* time, the clock running.                                                *)
(***************************************************************************)
LimRecordAttempt ==
    /\ attempts < MaxAttempts
    /\ recordAttempt
    /\ UNCHANGED <<vaultData, store, now, calls, displayLockout, history, session, bench>>

LimReset ==
    /\ reset
    /\ UNCHANGED <<vaultData, store, now, calls, displayLockout, history, session, bench>>

\* Time passes: a quantum (up to MaxTicks of them after an attempt), or
\* what is left of the lockout.
LimTick ==
    /\ \E d \in {Quantum : x \in {0} \cap {y \in {0} : now < lastAttempt + MaxTicks * Quantum}}
                \cup {lockedUntil - now : x \in {0} \cap {y \in {0} : isLocked}} :
            /\ now + d <= MaxAttempts * MAX_LOCKOUT_MS
            /\ now' = now + d
    /\ UNCHANGED <<vaultData, store, limiter, calls, displayLockout, history,
                   session, bench>>

LimInit == Init /\ vaultData = BaseManifest

LimNext == LimRecordAttempt \/ LimReset \/ LimTick

LimiterSpec == LimInit /\ [][LimNext]_vars

(***************************************************************************)
(* The functions of crypto.ts called on their own: encryptContent of the   *)
(* authoring script followed by decryptData, and verifyHmac.               *)
(***************************************************************************)
\* The encryption keys and the integrity keys of the two passphrases.
EncryptionKeys ==
    {deriveKey(p, bufferToHex(AuthorSalt)).val : p \in Passphrases}
HmacKeys ==
    {deriveHmacKey(p, bufferToHex(AuthorSalt)).val : p \in Passphrases}

\* What is done to a sealed document before it is decrypted.
Alterations == {"none", "data", "iv"}

Altered(sealed, alteration) ==
    IF alteration = "data"
    THEN [sealed EXCEPT !.data = SetChar(@, 1, IF @[1] = 65 THEN 66 ELSE 65)]
    ELSE IF alteration = "iv"
    THEN [sealed EXCEPT !.iv = SetChar(@, 1, IF @[1] = 48 THEN 49 ELSE 48)]
    ELSE sealed

\* The messages verifyHmac is given, and the digests it is to find.
SignedData == {JSONstringify(FileLists[i]) : i \in 1..3}

ExpectedDigests ==
    LET digests == {computeHmac(k, d) : k \in HmacKeys, d \in SignedData}
    IN  digests
        \cup {SetChar(h, 1, 102) : h \in digests}
        \cup {SubSeq(h, 1, Len(h) - 2) : h \in digests}
        \cup {SetChar(h, 1, 103) : h \in digests}

Pending == [fn |-> "none", stage |-> "new", key |-> <<>>, iv |-> <<>>,
            content |-> <<>>, other |-> <<>>, alteration |-> "none",
            sealed |-> [iv |-> <<>>, data |-> <<>>],
            data |-> <<>>, expected |-> <<>>,
            out |-> Return(FALSE), examined |-> 0]

RoundTrips ==
    {[Pending EXCEPT !.fn = "roundtrip", !.key = k, !.iv = AuthorIv(n),
                     !.content = c, !.other = o, !.alteration = a] :
        k \in EncryptionKeys, n \in 1..2, c \in Range(ContentSeq),
        o \in EncryptionKeys, a \in Alterations}

Verifications ==
    {[Pending EXCEPT !.fn = "verifyHmac", !.key = k, !.data = d,
                     !.expected = h] :
        k \in HmacKeys, d \in SignedData, h \in ExpectedDigests}

\* encryptContent(key, content), with the nonce it drew.
CallEncryptContent ==
    /\ probe.fn = "roundtrip" /\ probe.stage = "new"
    /\ probe' = [probe EXCEPT
                    !.stage = "sealed",
                    !.sealed = encryptContent(probe.key, probe.content, probe.iv)]
    /\ UNCHANGED <<vaultData, store, limiter, now, calls, displayLockout,
                   history, session, author>>

\* decryptData(other, iv, data) on the sealed document, altered or not.
CallDecryptData ==
    /\ probe.fn = "roundtrip" /\ probe.stage = "sealed"
    /\ LET given == Altered(probe.sealed, probe.alteration)
       IN  probe' = [probe EXCEPT
                       !.stage = "done",
                       !.out = decryptData(probe.other, given.iv, given.data)]
    /\ UNCHANGED <<vaultData, store, limiter, now, calls, displayLockout,
                   history, session, author>>

CallVerifyHmac ==
    /\ probe.fn = "verifyHmac" /\ probe.stage = "new"
    /\ probe' = [probe EXCEPT
                    !.stage = "done",
                    !.out = verifyHmac(probe.key, probe.data, probe.expected),
                    !.examined = verifyHmacExamined(probe.key, probe.data,
                                                    probe.expected)]
    /\ UNCHANGED <<vaultData, store, limiter, now, calls, displayLockout,
                   history, session, author>>

CryptoInit ==
    /\ vaultData = BaseManifest
    /\ Loaded
    /\ probe \in RoundTrips \cup Verifications
    /\ author = NoRun

CryptoNext == CallEncryptContent \/ CallDecryptData \/ CallVerifyHmac

CryptoSpec == CryptoInit /\ [][CryptoNext]_vars

(***************************************************************************)
(* The authoring script (README, main) run step by step: one iteration of  *)
(* its loop per step, each with the nonce crypto.getRandomValues returns,  *)
(* then the manifest.  The passphrase and the salt are those of the model. *)
(***************************************************************************)
\* One iteration of the loop over markdownFiles.
AuthorEncrypt ==
    /\ author.pc = "loop"
    /\ Len(author.encryptedFiles) < Len(author.docs)
    /\ \E iv \in Drawn :
          LET i == Len(author.encryptedFiles) + 1
          IN  author' = [author EXCEPT !.encryptedFiles =
                  Append(@, encryptedFile(deriveEncryptionKey(Passphrase, AuthorSalt),
                                          author.docs[i], i, iv))]
    /\ UNCHANGED <<vaultData, store, limiter, now, calls, displayLockout,
                   history, session, probe>>

\* After the loop: the digest over the list, and the manifest written.
AuthorEmit ==
    /\ author.pc = "loop"
    /\ Len(author.encryptedFiles) = Len(author.docs)
    /\ LET filesData == JSONstringify(author.encryptedFiles)
           hmac == computeHmac(authorDeriveHmacKey(Passphrase, AuthorSalt), filesData)
       IN  author' = [author EXCEPT
                        !.pc = "done",
                        !.manifest = [salt |-> bufferToHex(AuthorSalt),
                                      hmac |-> hmac,
                                      files |-> author.encryptedFiles]]
    /\ UNCHANGED <<vaultData, store, limiter, now, calls, displayLockout,
                   history, session, probe>>

AuthorInit ==
    /\ vaultData = BaseManifest
    /\ Loaded
    /\ probe = NoProbe
    /\ author \in {[pc |-> "loop", docs |-> docs, encryptedFiles |-> <<>>,
                     manifest |-> BaseManifest] : docs \in Range(DocDirs)}

AuthorNext == AuthorEncrypt \/ AuthorEmit

AuthorSpec == AuthorInit /\ [][AuthorNext]_vars

(***************************************************************************)
(* What the claims speak of.                                               *)
(***************************************************************************)
\* The documents an authored manifest was made from.
DocsOf(manifest) ==
    CHOOSE docs \in DocLists : main(Passphrase, AuthorSalt, docs) = manifest

\* One entry per document, in order, with the content that was encrypted.
Plaintexts(manifest) ==
    [i \in 1..Len(manifest.files) |->
        [id |-> manifest.files[i].id,
         title |-> manifest.files[i].title,
         priority |-> manifest.files[i].priority,
         tags |-> manifest.files[i].tags,
         content |-> DocsOf(manifest)[i].content]]

\* The manifests as the authoring script writes them, and the same without
\* the hmac field.
ValidManifests == Authored \cup {WithoutHmac(m) : m \in Authored}

\* The last step settled an unlock call that had passed the gate.
Settled == last.op \in {"integrity", "catch", "success"}

\* C1: on a manifest authored with passphrase P, an unlock(P) that passed the
\* gate ends unlocked, with no error, and with decryptedFiles holding one
\* entry per document in manifest order, metadata as in the manifest and
\* content equal to the plaintext that was encrypted.
C1_UnlockRestoresPlaintext ==
    (vaultData \in Authored /\ Settled /\ last.passphrase = Passphrase)
        => /\ last.op = "success"
           /\ isUnlocked
           /\ error = NoError
           /\ decryptedFiles = Plaintexts(vaultData)

\* C2: on a valid manifest, with or without hmac, an unlock with a wrong
\* passphrase that passed the gate ends with error INVALID_PASSPHRASE and the
\* attempts count one higher than before.
C2_WrongPassphraseIsInvalidPassphrase ==
    (vaultData \in ValidManifests /\ Settled /\ last.passphrase # Passphrase)
        => /\ error = "INVALID_PASSPHRASE"
           /\ attempts = last.before + 1

\* Every document of the manifest decrypts under the key of passphrase p.
Opens(p) ==
    /\ ~deriveKey(p, vaultData.salt).threw
    /\ \A i \in 1..Len(vaultData.files) :
          ~decryptData(deriveKey(p, vaultData.salt).val,
                       vaultData.files[i].iv, vaultData.files[i].data).threw

\* The decrypted form of every document, in manifest order.
FullSet(p) ==
    [i \in 1..Len(vaultData.files) |->
        [id |-> vaultData.files[i].id,
         title |-> vaultData.files[i].title,
         priority |-> vaultData.files[i].priority,
         tags |-> vaultData.files[i].tags,
         content |-> decryptData(deriveKey(p, vaultData.salt).val,
                                 vaultData.files[i].iv,
                                 vaultData.files[i].data).val]]

C4_NoResurrectionAfterWipe ==
    (last.op = "success" /\ last.wiped)
        => /\ ~isUnlocked
           /\ decryptedFiles = <<>>
           /\ masterKey = NULL

\* C5: at most one unlock call is past the gate and unsettled at any time.
C5_AtMostOneInFlight == Cardinality(InFlight) <= 1

\* C6: after exactly 5 recordAttempt() calls from a reset limiter, lockedUntil
\* is the time of the 5th call plus 15000 ms, and isLocked() is true at every
\* instant from that call until then.
C6_LockedFifteenSecondsAfterFifth ==
    attempts = 5
        => /\ lockedUntil = lastAttempt + 15000
           /\ now >= lastAttempt
           /\ (now < lastAttempt + 15000) => isLocked

\* Ten seconds into the window of the 5th failure.
C6_Witness == attempts = 5 /\ now = lastAttempt + 10000 /\ isLocked

\* The durations C7 lists.
LockoutTable(n) ==
    CASE n = 5 -> 15000
      [] n = 6 -> 30000
      [] n = 7 -> 60000
      [] n = 8 -> 120000
      [] n = 9 -> 240000
      [] OTHER -> 300000

\* C7: for every attempts count n >= 5 the lockout that recordAttempt set is
\* min(15000 * 2^(n-5), 300000) ms: 15 s, 30 s, 60 s, 120 s, 240 s, then
\* 300 s, and never more than 300 s.
C7_LockoutDuration ==
    attempts >= 5
        => /\ lockedUntil - lastAttempt = Min(15000 * Pow(2, attempts - 5), 300000)
           /\ lockedUntil - lastAttempt = LockoutTable(attempts)
           /\ lockedUntil - lastAttempt <= 300000

\* The 11th failure: past the point where the cap takes over.
C7_Witness == attempts = 11 /\ lockedUntil - lastAttempt = 300000

\* C8: the passing of time leaves attempts alone; once lockedUntil has passed
\* isLocked() is false; and a failure recorded then, at the still elevated
\* count, sets a lockout at least twice the previous one, up to the cap.
C8_ExpiryKeepsTheCount ==
    [][/\ now' # now => attempts' = attempts
       /\ now >= lockedUntil => ~isLocked
       /\ (attempts >= 5 /\ ~isLocked /\ attempts' # attempts /\ attempts' # 0)
            => /\ attempts' = attempts + 1
               /\ lockedUntil' - now' >= Min(2 * (lockedUntil - lastAttempt), 300000)]_vars

\* The 15 s window of the 5th failure has expired and the count is still 5.
C8_Witness == attempts = 5 /\ lockedUntil > 0 /\ now >= lockedUntil /\ ~isLocked

\* C9: right after an unlock call succeeds the limiter has attempts = 0 and
\* lockedUntil = 0, and isLocked() is false.
C9_SuccessResetsLimiter ==
    last.op = "success" => (attempts = 0 /\ lockedUntil = 0 /\ ~isLocked)

\* A success that found the limiter at its threshold.
C9_Witness == last.op = "success" /\ last.before >= 5

UnlockCalled ==
    \/ last'.op \in {"gate", "empty"}
    \/ \E i \in Slots : calls[i].pc = "idle" /\ calls'[i].pc # "idle"

\* A step in which wipe runs.
WipeCalled == last'.op = "wipe"

\* C11: unlock called while the limiter is locked ends at once with the
\* error RATE_LIMITED and lockoutRemainingMs set to the time left of the
\* lockout, which is positive; no call is left in flight (nothing is
\* verified, derived or decrypted), and attempts, lockedUntil, isUnlocked,
\* decryptedFiles and isDecrypting stay as they were.
C11_RateLimitedGate ==
    [][(now < lockedUntil /\ UnlockCalled) =>
          /\ last'.op = "gate"
          /\ error' = "RATE_LIMITED"
          /\ lockoutRemainingMs' = lockedUntil - now
          /\ lockoutRemainingMs' > 0
          /\ UNCHANGED <<attempts, lockedUntil, isUnlocked, decryptedFiles,
                         isDecrypting, calls>>]_vars

C11_Witness ==
    /\ last.op = "gate"
    /\ error = "RATE_LIMITED"
    /\ now > lastAttempt
    /\ lockoutRemainingMs = lockedUntil - now

\* C12: on a manifest that carries an hmac and whose files were altered
\* afterwards (a document's data, a title, the order of the documents), an
\* unlock call with the passphrase the vault was authored with ends with
\* INTEGRITY_FAILURE and one more recorded attempt; no call gets as far as
\* deriving the key or decrypting a document, and the store stays locked.
C12_TamperedFilesFailIntegrity ==
    vaultData \in TamperedManifests =>
        /\ ~isUnlocked /\ decryptedFiles = <<>> /\ masterKey = NULL
        /\ \A i \in Slots : /\ calls[i].pc \notin {"derive", "decrypt"}
                            /\ calls[i].decrypted = <<>>
        /\ (Settled /\ last.passphrase = Passphrase) =>
               /\ last.op = "integrity"
               /\ error = "INTEGRITY_FAILURE"
               /\ attempts = last.before + 1

C12_Witness ==
    /\ vaultData = [PairManifest EXCEPT !.files = Reorder(@)]
    /\ last.op = "integrity"
    /\ last.passphrase = Passphrase
    /\ error = "INTEGRITY_FAILURE"

\* C13: a call that ends with INTEGRITY_FAILURE and a call that ends with
\* INVALID_PASSPHRASE leave the same message in errorMessage, the one the
\* unlock screen shows: whichever of the two a call ended with, the message
\* is the message of both kinds.
C13_SameGenericMessage ==
    last.op \in {"integrity", "catch"} =>
        /\ error \in {"INTEGRITY_FAILURE", "INVALID_PASSPHRASE"}
        /\ errorMessage = getErrorMessage("INTEGRITY_FAILURE")
        /\ errorMessage = getErrorMessage("INVALID_PASSPHRASE")

\* C14: unlock called with the limiter open on a vault without salt or
\* without documents ends at once with the error VAULT_EMPTY and isDecrypting
\* false; attempts and lockedUntil are what they were before the call.
C14_VaultEmptyLeavesLimiter ==
    [][(/\ UnlockCalled
        /\ ~(now < lockedUntil)
        /\ (vaultData.salt = <<>> \/ Len(vaultData.files) = 0)) =>
          /\ last'.op = "empty"
          /\ error' = "VAULT_EMPTY"
          /\ isDecrypting' = FALSE
          /\ UNCHANGED <<attempts, lockedUntil, calls>>]_vars

C14_Witness ==
    /\ vaultData \in EmptyManifests
    /\ last.op = "empty"
    /\ error = "VAULT_EMPTY"
    /\ ~isDecrypting
    /\ attempts = 0 /\ lockedUntil = 0

\* C15: on a manifest whose salt is no hex string or whose data is no base64,
\* no step of an unlock call penalizes the limiter: attempts and lockedUntil
\* are after the call what they were before it.
C15_MalformedLeavesLimiter ==
    [][(vaultData \in MalformedManifests) =>
          (attempts' = attempts /\ lockedUntil' = lockedUntil)]_vars

C17_WipeLocksTheStore ==
    last.op = "wipe" =>
        /\ ~isUnlocked
        /\ decryptedFiles = <<>>
        /\ masterKey = NULL
        /\ error = NoError /\ errorMessage = ""
        /\ ~isDecrypting

\* A wipe that found a call in flight, in a vault the passphrase opens.
C17_Witness ==
    /\ vaultData \in Authored
    /\ last.op = "wipe"
    /\ \E i \in InFlight : calls[i].wiped /\ calls[i].pc = "decrypt"
    /\ ~isUnlocked /\ masterKey = NULL

\* C18: wipe leaves the limiter as it was: attempts, lockedUntil and
\* lastAttempt are unchanged, so a lockout in force stays in force and
\* isLocked answers after the wipe what it answered before.
C18_WipeLeavesLimiter ==
    [][WipeCalled =>
          /\ attempts' = attempts
          /\ lockedUntil' = lockedUntil
          /\ lastAttempt' = lastAttempt
          /\ (now' < lockedUntil') = (now < lockedUntil)]_vars

\* A wipe during a lockout.
C18_Witness ==
    /\ last.op = "wipe"
    /\ now < lockedUntil
    /\ attempts = MAX_UNLOCK_ATTEMPTS

\* C19: when an unlock call has ended with an error (RATE_LIMITED,
\* VAULT_EMPTY, INTEGRITY_FAILURE or INVALID_PASSPHRASE), the store is
\* locked: isUnlocked is false, decryptedFiles is empty, masterKey is null
\* and isDecrypting is false.
C19_ErrorLeavesLocked ==
    last.op \in {"gate", "empty", "integrity", "catch"} =>
        /\ error \in {"RATE_LIMITED", "VAULT_EMPTY", "INTEGRITY_FAILURE",
                       "INVALID_PASSPHRASE"}
        /\ ~isUnlocked
        /\ decryptedFiles = <<>>
        /\ masterKey = NULL
        /\ ~isDecrypting

\* C20: the store starts locked with decryptedFiles empty.  isUnlocked goes
\* from false to true only in the step that ends an unlock call on its
\* success branch, for a passphrase under which the integrity check passes
\* and every document decrypts, with decryptedFiles set to the full set; it
\* goes from true to false only in a wipe step.
C20_UnlockedOnlyBySuccess ==
    /\ ~isUnlocked /\ decryptedFiles = <<>>
    /\ [][/\ (~isUnlocked /\ isUnlocked') =>
                /\ last'.op = "success"
                /\ IntegrityTable[vaultData][last'.passphrase] = Return(TRUE)
                /\ Opens(last'.passphrase)
                /\ decryptedFiles' = FullSet(last'.passphrase)
                /\ \E i \in Slots : calls[i].pc = "decrypt" /\ calls'[i] = Idle
          /\ (isUnlocked /\ ~isUnlocked') => WipeCalled]_vars

\* An unlock that passed a real integrity check and decrypted two documents.
C20_Witness ==
    /\ vaultData = PairManifest
    /\ last.op = "success"
    /\ isUnlocked
    /\ Len(decryptedFiles) = 2

\* C21: on a manifest with an hmac, a call waits for deriveKey only after
\* its integrity check has returned true, and for a decryptData only after
\* that: a call enters "derive" from "verify" alone, enters "decrypt" from
\* "derive" alone, and a call whose check fails or throws ends in the step
\* that learns it, without deriving the encryption key or decrypting.
C21_IntegrityBeforeDecryption ==
    /\ \A i \in Slots :
          (vaultData.hmac # <<>> /\ calls[i].pc \in {"derive", "decrypt"}) =>
              IntegrityTable[vaultData][calls[i].passphrase] = Return(TRUE)
    /\ [][\A i \in Slots :
            vaultData.hmac # <<>> =>
              /\ (calls[i].pc = "idle" /\ calls'[i].pc # "idle") =>
                    calls'[i].pc = "verify"
              /\ (calls[i].pc # "derive" /\ calls'[i].pc = "derive") =>
                    calls[i].pc = "verify"
              /\ (calls[i].pc # "decrypt" /\ calls'[i].pc = "decrypt") =>
                    calls[i].pc = "derive"
              /\ (/\ calls[i].pc = "verify"
                  /\ calls'[i] # calls[i]
                  /\ calls'[i].wiped = calls[i].wiped
                  /\ IntegrityTable[vaultData][calls[i].passphrase] # Return(TRUE)) =>
                    calls'[i] = Idle]_vars

\* A call on a signed manifest that got as far as decrypting.
C21_Witness ==
    /\ vaultData \in Authored
    /\ \E i \in Slots : calls[i].pc = "decrypt" /\ calls[i].index = 1

\* C22: on a manifest without hmac the integrity check returns true for
\* every passphrase and no call waits for a verification; a call that passed
\* the gate ends as the decryption of the documents decides: unlocked, with
\* no error, when every document decrypts under its passphrase (on an
\* authored manifest, the authoring passphrase and no other), and otherwise
\* with INVALID_PASSPHRASE and one more recorded attempt.
C22_NoHmacDecryptionDecides ==
    vaultData.hmac = <<>> =>
        /\ \A p \in Passphrases : IntegrityTable[vaultData][p] = Return(TRUE)
        /\ \A i \in Slots : calls[i].pc # "verify"
        /\ Settled =>
              /\ vaultData \in {WithoutHmac(m) : m \in Authored} =>
                    (Opens(last.passphrase) <=> last.passphrase = Passphrase)
              /\ IF Opens(last.passphrase)
                 THEN /\ last.op = "success"
                      /\ isUnlocked /\ error = NoError
                      /\ decryptedFiles = FullSet(last.passphrase)
                 ELSE /\ last.op = "catch"
                      /\ error = "INVALID_PASSPHRASE"
                      /\ attempts = last.before + 1

\* A wrong passphrase on an authored manifest stripped of its hmac.
C22_Witness ==
    /\ vaultData \in {WithoutHmac(m) : m \in Authored}
    /\ last.op = "catch"
    /\ last.passphrase = WrongPassphrase
    /\ error = "INVALID_PASSPHRASE"

(***************************************************************************)
(* The triggers of the session.                                            *)
(***************************************************************************)
\* The last step handled a user input that setupInactivityHandler counts.
Activity ==
    event.type \in PointerEvents \/ (event.type = "keydown" /\ ~isPanicKey(event))

CtrlShiftL ==
    /\ event.type = "keydown"
    /\ event.key \in {<<108>>, <<76>>}
    /\ event.ctrlKey /\ event.shiftKey

\* The store as a wipe leaves it, the handlers removed.
WipedByEvent ==
    /\ last.op = "wipe"
    /\ ~isUnlocked /\ decryptedFiles = <<>> /\ masterKey = NULL
    /\ timeout = NoTimer

C26_HiddenOnlyRecords ==
    [][(event'.type = "hidden") =>
          /\ isUnlocked /\ isUnlocked'
          /\ ~WipeCalled
          /\ sessionStorage' =
                setItem(sessionStorage, "cv_hidden_at", NumberToString(now))
          /\ UNCHANGED <<isUnlocked, decryptedFiles, masterKey, error>>
          /\ UNCHANGED <<limiter, timeout, calls>>]_vars

\* The view hidden some time after the unlock.
C26_Witness ==
    /\ event.type = "hidden"
    /\ isUnlocked /\ decryptedFiles # <<>>
    /\ now > 0
    /\ <<"cv_hidden_at", NumberToString(now)>> \in sessionStorage

\* The decimal digits of a time the clock of the session has shown.
IsTimestamp(value) ==
    \E k \in 0..(now \div SessionQuantum) :
        value = NumberToString(k * SessionQuantum)

C28_RoundTrip ==
    (probe.fn = "roundtrip" /\ probe.stage = "done") =>
        IF probe.other = probe.key /\ probe.alteration = "none"
        THEN probe.out = Return(probe.content)
        ELSE probe.out.threw

\* C29: in every manifest the authoring run emits, no two documents carry
\* the same iv: the ivs of distinct entries of files differ.
C29_NoncesUnique ==
    author.pc = "done" =>
        \A i, j \in 1..Len(author.manifest.files) :
            i # j => author.manifest.files[i].iv # author.manifest.files[j].iv

SaltInvalid ==
    /\ vaultData.salt # <<>>
    /\ \/ hexToBuffer(vaultData.salt).threw
       \/ Len(hexToBuffer(vaultData.salt).val) # SALT_LENGTH

\* C31: on a manifest whose salt is no hex string, or hex of another length
\* than 16 bytes, an unlock call that passed the gate ends with the error
\* kind MALFORMED_MANIFEST, and no call of it gets as far as the key
\* derivation: none waits for the decryption, none has a key.
C31_InvalidSaltIsMalformedManifest ==
    SaltInvalid =>
        /\ Settled => error = "MALFORMED_MANIFEST"
        /\ \A i \in Slots : calls[i].pc # "decrypt" /\ calls[i].key = NULL

\* C32: whenever attempts is below MAX_UNLOCK_ATTEMPTS, lockedUntil is 0 and
\* isLocked() is false, whatever the clock: fewer than five failures since
\* the last reset never lock the limiter, and a reset leaves no lockout.
C32_BelowFiveNeverLocked ==
    attempts < MAX_UNLOCK_ATTEMPTS => (lockedUntil = 0 /\ ~isLocked)

\* A call that passed the gate before the fifth failure has succeeded after
\* it: the store still shows the lockout that failure started, and the
\* limiter holds none.
C32_Witness ==
    /\ last.op = "success"
    /\ lockoutRemainingMs > 0
    /\ attempts = 0 /\ lockedUntil = 0 /\ ~isLocked

\* C33: a step that is no reset never lowers lockedUntil: recordAttempt,
\* with the clock never going back, sets it to a value at least as large as
\* the one it had, also during a lockout.
C33_LockedUntilNeverDecreases ==
    [][attempts' # 0 => lockedUntil' >= lockedUntil]_vars

\* The sixth failure was recorded while the lockout of the fifth was running
\* (less than LOCKOUT_BASE_MS has passed at all), and extended it.
C33_Witness ==
    /\ attempts = MAX_UNLOCK_ATTEMPTS + 1
    /\ lastAttempt = now
    /\ 0 < now /\ now < LOCKOUT_BASE_MS
    /\ lockedUntil = now + lockoutDuration(attempts)

\* C34: recordAttempt never runs at an instant when isLocked() is true: no
\* step counts a failure while a lockout is running.
C34_NoAttemptRecordedWhileLocked ==
    [][attempts' = attempts + 1 => ~isLocked]_vars

\* C35: isDecrypting is true exactly when some unlock call has passed the
\* gate and has not yet settled; no wipe and no other call's end clears it
\* while a call is in flight.
C35_DecryptingIffInFlight ==
    isDecrypting <=> InFlight # {}

\* C36: masterKey is non-null exactly when isUnlocked is true.
C36_KeyIffUnlocked ==
    (masterKey # NULL) <=> isUnlocked

\* C37: every unlock call that passed the gate ends, as long as the promises
\* it awaits settle: in the step that ends it the store shows one outcome
\* (unlocked; VAULT_EMPTY; INTEGRITY_FAILURE; INVALID_PASSPHRASE) and
\* isDecrypting is set to false; and isDecrypting never stays true for ever.
C37_EveryCallSettles ==
    /\ \A i \in Slots : (calls[i].pc # "idle") ~> (calls[i].pc = "idle")
    /\ isDecrypting ~> ~isDecrypting
    /\ [][/\ \A i \in Slots :
               (calls[i].pc # "idle" /\ calls'[i].pc = "idle") =>
                   /\ ~isDecrypting'
                   /\ \/ last'.op = "success" /\ isUnlocked' /\ error' = NoError
                      \/ last'.op = "integrity" /\ error' = "INTEGRITY_FAILURE"
                      \/ last'.op = "catch" /\ error' = "INVALID_PASSPHRASE"
          /\ last'.op = "empty" =>
                 ~isDecrypting' /\ error' = "VAULT_EMPTY" /\ UNCHANGED calls]_vars

\* Two calls have failed, the second in the catch branch, and none is in
\* flight.
C37_Witness ==
    /\ InFlight = {}
    /\ ~isDecrypting
    /\ last.op = "catch"
    /\ failedSinceSuccess >= 2

\* C38: the inactivity countdown is pending exactly while the store is
\* unlocked, and is cancelled by the step that locks it; the panic-key
\* handler and the countdown's callback run only while the store is
\* unlocked, so neither invokes wipe on a locked store; and the callback
\* runs only when SESSION_TIMEOUT_MS has passed since the current session
\* was unlocked or last used, never at the time a countdown of an earlier
\* session would have been due.
C38_TriggersOnlyWhileUnlocked ==
    /\ [](timeout # NoTimer <=> isUnlocked)
    /\ [][/\ (isUnlocked /\ ~isUnlocked') => timeout' = NoTimer
          /\ (event'.type \in {"keydown", "timeout"}) => isUnlocked
          /\ (WipeCalled /\ ~isUnlocked) => event'.type = "beforeunload"
          /\ (event'.type = "timeout") =>
                 now >= activeSince + SESSION_TIMEOUT_MS]_vars

\* A session was locked with its countdown pending, a later session is
\* running, and the time that countdown would have been due has come
\* without a wipe.
C38_Witness ==
    /\ isUnlocked
    /\ cleared # NoTimer
    /\ now >= cleared
    /\ now < timeout

=============================================================================
